---- MODULE Spec2Model ----
(***************************************************************************)
(* Window control coordinator of the smart-window repository.              *)
(*                                                                         *)
(* The repository holds several variants of the backend server:            *)
(*   "command_v1"  backend/src/server.js 40-110  (currentCommand, autoMode *)
(*                 tested before action)                                    *)
(*   "backend"     backend/src/server.js 112-463 (windowState.autoMode,    *)
(*                 cached external data, synchronous decision timer)       *)
(*   "open_meteo"  unnamed/part_001 103-584      (windowState.autoMode,    *)
(*                 Open-Meteo cache, asynchronous decision timer)          *)
(*   "command"     unnamed/part_001 586-664      (currentCommand, action   *)
(*                 tested before autoMode)                                  *)
(* One of them is deployed; Init chooses which.                            *)
(*                                                                         *)
(* Modelled so far: the window routes, the telemetry route, the decision   *)
(* timers, the refresh of `cached`, getWeatherData() with its callers, and *)
(* GET /api/external/open-meteo with its periodic refresh.                 *)
(* Not modelled yet: the proxies, the firmware and the clients.            *)
(*                                                                         *)
(* JavaScript values that cross the JSON boundary are modelled as strings: *)
(* "undefined", "null", "true", "false", "num:<n>", "str:<s>"; the action  *)
(* field carries the bare strings "open", "close", "toggle".  Numbers the  *)
(* server computes with are optional integers: <<>> is null, <<n>> is n.   *)
(***************************************************************************)
EXTENDS Integers, Sequences, FiniteSets, TLC

VARIABLES
    variant,         \* which server variant is deployed
    now,             \* wall clock (Date.now()), in model time units
    windowState,     \* the global windowState object
    currentCommand,  \* the global currentCommand ('AUTO' | 'OPEN' | 'CLOSE')
    cached,          \* backend: the global `cached` object
    env,             \* backend: which API keys are configured
    refreshPc,       \* backend: position of the running refreshExternalData()
    nextRefreshAt,   \* backend: due time of the refresh setInterval
    nextDecisionAt,  \* due time of the auto-update setInterval
    openMeteoCache,  \* open_meteo: app.locals.openMeteoCache
    pending,         \* open_meteo: the callers of getWeatherData() awaiting the provider
    request,         \* the request (or timer callback) just handled
    response,        \* the response just sent
    manualChoice,    \* observer: manual choice in force ("none" after auto)
    ctlOutcome,      \* observer: currentCommand after the last control request
    lastDecisionAt,  \* observer (backend): time of the last evaluation by the decision timer
    logRun,          \* observer: the telemetry reports in a row since the last control request
    refreshRest,     \* open_meteo: the cached keys the running refresh has still to visit
    eval,            \* a call of the decision function on its own: reading and result
    device,          \* the ESP32 firmware's globals
    app              \* the mobile application's component state

vars == <<variant, now, windowState, currentCommand, cached, env, refreshPc,
          nextRefreshAt, nextDecisionAt, openMeteoCache, pending, request,
          response, manualChoice, ctlOutcome, lastDecisionAt, logRun,
          refreshRest, eval, device, app>>

\* the state outside the server process
offServer == <<eval, device, app>>

\* ------------------------------------------------------------------ bounds
\* the horizon of the wall clock, in time units of the deployed variant
MaxTime == 4
\* the horizon for the Open-Meteo server (unit: one auto-update period)
MaxTimeOpenMeteo == 2

\* ------------------------------------------------------- JavaScript values
Variants == {"command_v1", "backend", "open_meteo", "command"}

ActionVals == {"undefined", "open", "close", "toggle"}
AutoModeVals == {"undefined", "true", "false", "null"}
IsOpenVals == {"undefined", "true", "false"}
TempVals == {"undefined", "num:20"}
AqiVals == {"undefined", "num:30"}

\* ToBoolean
Truthy(v) == v \notin {"undefined", "null", "false", "num:0", "str:"}

JsBool(b) == IF b THEN "true" ELSE "false"

Null == <<>>
Some(n) == <<n>>
IsNull(v) == v = <<>>
\* ToNumber of an optional number: null converts to 0
ToNumber(v) == IF IsNull(v) THEN 0 ELSE v[1]
\* a number used as a condition: 0 and null are falsy
TruthyNum(v) == ~IsNull(v) /\ v[1] # 0

\* ------------------------------------------------------- requests, responses
NoRequest ==
    [route |-> "none", action |-> "undefined", autoMode |-> "undefined",
     isOpen |-> "undefined", temp |-> "undefined", aqi |-> "undefined"]

ControlRequest(action, autoMode) ==
    [NoRequest EXCEPT !.route = "control", !.action = action, !.autoMode = autoMode]

LogRequest(temp, aqi, isOpen) ==
    [NoRequest EXCEPT !.route = "log", !.temp = temp, !.aqi = aqi, !.isOpen = isOpen]

TimerRequest(name) == [NoRequest EXCEPT !.route = name]

GetRequest(name) == [NoRequest EXCEPT !.route = name]

NoResponse ==
    [route |-> "none", status |-> 0, success |-> "undefined",
     command |-> "undefined", isOpen |-> "undefined", autoMode |-> "undefined",
     lastUpdated |-> -1, recommendation |-> "undefined",
     cached |-> "undefined"]

\* res.json({ success: true, command: currentCommand })
LogResponse(cmd) ==
    [NoResponse EXCEPT !.route = "log", !.status = 200, !.success = "true",
                       !.command = cmd]

\* mutant: the stored object is sent as it is, without the computed autoMode
StateResponseRaw(route, success, ws, autoMode) ==
    [NoResponse EXCEPT !.route = route, !.status = 200, !.success = success,
                       !.isOpen = ws.isOpen, !.autoMode = ws.autoMode,
                       !.lastUpdated = ws.lastUpdated]

\* the projection of windowState sent to the clients
StateResponse(route, success, ws, autoMode) ==
    [NoResponse EXCEPT !.route = route, !.status = 200, !.success = success,
                       !.isOpen = ws.isOpen, !.autoMode = autoMode,
                       !.lastUpdated = ws.lastUpdated]

\* ------------------------------------------------------------ initial state
\* let windowState = { isOpen: false, temp: 0, aqi: 0, lastUpdated: new Date() }
InitWindowStateCommand ==
    [isOpen |-> "false", temp |-> "num:0", aqi |-> "num:0", lastUpdated |-> 0,
     autoMode |-> "undefined"]

\* let windowState = { isOpen: false, lastUpdated: ..., autoMode: true }
InitWindowStateBackend ==
    [isOpen |-> "false", temp |-> "undefined", aqi |-> "undefined",
     lastUpdated |-> 0, autoMode |-> "true"]

IsCommandVariant == variant \in {"command_v1", "command"}

\* ---------------------------------------------- command variants: telemetry
\* mutant: the device's report is taken as the new command
LogHandlerAdopts(temp, aqi, isOpen) ==
    /\ windowState' = [windowState EXCEPT !.isOpen = isOpen, !.temp = temp,
                                          !.aqi = aqi, !.lastUpdated = now]
    /\ currentCommand' = IF isOpen = "true" THEN "OPEN" ELSE "CLOSE"
    /\ response' = LogResponse(currentCommand')

\* mutant: the answer echoes the reported position instead of the command
LogHandlerEcho(temp, aqi, isOpen) ==
    /\ windowState' = [windowState EXCEPT !.isOpen = isOpen, !.temp = temp,
                                          !.aqi = aqi, !.lastUpdated = now]
    /\ currentCommand' = currentCommand
    /\ response' = LogResponse(IF isOpen = "true" THEN "OPEN" ELSE "CLOSE")

\* mutant: a command is handed out once, the next report gets AUTO again
LogHandlerOneShot(temp, aqi, isOpen) ==
    /\ windowState' = [windowState EXCEPT !.isOpen = isOpen, !.temp = temp,
                                          !.aqi = aqi, !.lastUpdated = now]
    /\ currentCommand' = "AUTO"
    /\ response' = LogResponse(currentCommand)

\* POST /api/window/log
LogHandler(temp, aqi, isOpen) ==
    /\ windowState' = [windowState EXCEPT !.isOpen = isOpen, !.temp = temp,
                                          !.aqi = aqi, !.lastUpdated = now]
    /\ currentCommand' = currentCommand
    /\ response' = LogResponse(currentCommand)

\* no telemetry report since the last control request
NoLogRun ==
    [count |-> 0, temp |-> "undefined", aqi |-> "undefined",
     isOpen |-> "undefined", command |-> "undefined"]

\* is this report a repetition of the one before it?
SamePayload(run, temp, aqi, isOpen) ==
    run.count > 0 /\ run.temp = temp /\ run.aqi = aqi /\ run.isOpen = isOpen

\* the run after one more report: a repetition counts up (2 stands for two or
\* more), another payload starts a new run with the command just returned
LogRunAfter(run, temp, aqi, isOpen, cmd) ==
    IF SamePayload(run, temp, aqi, isOpen)
    THEN [run EXCEPT !.count = 2]
    ELSE [count |-> 1, temp |-> temp, aqi |-> aqi, isOpen |-> isOpen,
          command |-> cmd]

PostLog ==
    /\ IsCommandVariant
    /\ \E temp \in TempVals, aqi \in AqiVals, isOpen \in IsOpenVals :
          /\ LogHandler(temp, aqi, isOpen)
          /\ request' = LogRequest(temp, aqi, isOpen)
          /\ logRun' = LogRunAfter(logRun, temp, aqi, isOpen, response'.command)
    /\ UNCHANGED <<offServer, refreshRest, variant, now, cached, env, refreshPc, nextRefreshAt,
                   nextDecisionAt, openMeteoCache, pending, manualChoice,
                   ctlOutcome, lastDecisionAt>>

\* ------------------------------------------------ command variants: control
\* POST /api/window/control, part_001 625-652: action first, then autoMode
CommandAfterControl(action, autoMode) ==
    IF action = "open" THEN "OPEN"
    ELSE IF action = "close" THEN "CLOSE"
    ELSE IF autoMode = "true" THEN "AUTO"
    ELSE IF autoMode = "false"
         THEN (IF Truthy(windowState.isOpen) THEN "OPEN" ELSE "CLOSE")
    ELSE currentCommand

\* POST /api/window/control, server.js 79-98: autoMode === true first
CommandAfterControlV1(action, autoMode) ==
    IF autoMode = "true" THEN "AUTO"
    ELSE IF action = "open" THEN "OPEN"
    ELSE IF action = "close" THEN "CLOSE"
    ELSE currentCommand

ControlHandlerCommand(action, autoMode) ==
    /\ currentCommand' = IF variant = "command"
                         THEN CommandAfterControl(action, autoMode)
                         ELSE CommandAfterControlV1(action, autoMode)
    /\ windowState' = windowState
    /\ response' = StateResponse("control", "true", windowState,
                                 JsBool(currentCommand' = "AUTO"))

PostControlCommand ==
    /\ IsCommandVariant
    /\ \E action \in ActionVals, autoMode \in AutoModeVals :
          /\ ControlHandlerCommand(action, autoMode)
          /\ request' = ControlRequest(action, autoMode)
    /\ ctlOutcome' = currentCommand'
    /\ logRun' = NoLogRun
    /\ UNCHANGED <<offServer, refreshRest, variant, now, cached, env, refreshPc, nextRefreshAt,
                   nextDecisionAt, openMeteoCache, pending, manualChoice,
                   lastDecisionAt>>

\* GET /api/window/status
GetStatusCommand ==
    /\ IsCommandVariant
    /\ response' = StateResponse("status", "undefined", windowState,
                                 JsBool(currentCommand = "AUTO"))
    /\ request' = GetRequest("status")
    /\ UNCHANGED <<offServer, refreshRest, logRun, variant, now, windowState, currentCommand, cached, env,
                   refreshPc, nextRefreshAt, nextDecisionAt, openMeteoCache,
                   pending, manualChoice, ctlOutcome, lastDecisionAt>>

\* ------------------------------------------------- backend: configuration
\* EXTERNAL_FETCH_INTERVAL and DECISION_INTERVAL (both from the environment),
\* in model time units
FetchInterval == 1
DecisionInterval == 2

\* OPEN_METEO_CACHE_TTL_MS in model time units: the default of one hour, and a
\* configured minute (the unit of the Open-Meteo server is the 30 s of its
\* auto-update timer)
DefaultTtl == 120
ShortTtl == 2

\* the process environment: which of METEOSOURCE_API_KEY / IQAIR_API_KEY /
\* OPENWEATHER_API_KEY are set (IQAir is preferred when both pollution keys are
\* present), and the TTL of the Open-Meteo cache
Envs == [meteosource : BOOLEAN, pollution : {"none", "iqair", "openweather"},
         ttl : {DefaultTtl, ShortTtl}]

\* the default deployment: no API key in the environment, default TTL
NoKeys == [meteosource |-> FALSE, pollution |-> "none", ttl |-> DefaultTtl]

\* ------------------------------------------------ backend: external data
\* cached.weather / cached.pollution: source "null" stands for a null slot
\* (cycle: the refreshExternalData() call that stored the slot, named by its
\* start time)
NullSlot == [source |-> "null", fetchedAt |-> -1, cycle |-> -1,
             sunlight |-> Null, wind |-> Null, aqi |-> Null]

\* the start time of the latest refreshExternalData() call
RefreshCycle == nextRefreshAt - FetchInterval

\* what MeteoSource may answer: current.sunlight (absent in the free plan),
\* current.wind_kph / wind_ms / wind_speed
WeatherPayloads ==
    { [sunlight |-> Null, wind |-> Some(10)],
      [sunlight |-> Some(70), wind |-> Some(10)],
      [sunlight |-> Some(70), wind |-> Some(45)] }

\* what the pollution provider may answer: aqius (IQAir), main.aqi 1..5 (OpenWeather)
PollutionPayloads(source) ==
    IF source = "iqair" THEN {Null, Some(30), Some(80)} ELSE {Some(1), Some(5)}

WeatherSlot(p) ==
    [NullSlot EXCEPT !.source = "meteosource", !.fetchedAt = now,
                     !.cycle = RefreshCycle,
                     !.sunlight = p.sunlight, !.wind = p.wind]

PollutionSlot(source, a) ==
    [NullSlot EXCEPT !.source = source, !.fetchedAt = now,
                     !.cycle = RefreshCycle, !.aqi = a]

InitCached == [weather |-> NullSlot, pollution |-> NullSlot, lastFetched |-> -1]

\* where refreshExternalData() first awaits, given the configured keys
RefreshEntry(e) ==
    IF e.meteosource THEN "weather"
    ELSE IF e.pollution # "none" THEN "pollution"
    ELSE "done"

\* setInterval callback: a new refreshExternalData() starts (at most one call is
\* kept in flight)
RefreshStart ==
    /\ variant = "backend"
    /\ refreshPc = "idle"
    /\ now >= nextRefreshAt
    /\ nextRefreshAt' = now + FetchInterval
    /\ LET pc == RefreshEntry(env) IN
          IF pc = "done"
          THEN /\ cached' = [cached EXCEPT !.lastFetched = now]
               /\ refreshPc' = "idle"
          ELSE /\ cached' = cached
               /\ refreshPc' = pc
    /\ request' = TimerRequest("refresh")
    /\ response' = NoResponse
    /\ UNCHANGED <<offServer, refreshRest, logRun, variant, now, windowState, currentCommand, env,
                   nextDecisionAt, openMeteoCache, pending,
                   manualChoice, ctlOutcome, lastDecisionAt>>

\* mutant: the timer waits for the call in flight, no call starts before it
\* has returned
RefreshStartAwaitsPrevious == FALSE

\* the setInterval callback while an earlier refreshExternalData() still awaits
\* its fetch: the timer does not wait for it, a new call starts. The earlier
\* call is not followed further (fetch has no timeout, it may never return).
RefreshStartOverlapping ==
    /\ variant = "backend"
    /\ refreshPc # "idle"
    /\ now >= nextRefreshAt
    /\ nextRefreshAt' = now + FetchInterval
    /\ refreshPc' = RefreshEntry(env)
    /\ request' = TimerRequest("refresh")
    /\ response' = NoResponse
    /\ UNCHANGED <<offServer, refreshRest, logRun, variant, now, windowState,
                   currentCommand, cached, env, nextDecisionAt, openMeteoCache,
                   pending, manualChoice, ctlOutcome, lastDecisionAt>>

\* mutant: a failed fetch empties the slot
StoreAlways(slot, ok, new) == IF ok THEN new ELSE NullSlot

\* if (data) cached.x = { source, fetchedAt, data }
StoreIfData(slot, ok, new) == IF ok THEN new ELSE slot

\* the MeteoSource fetch returns (data, or null on failure)
RefreshWeatherDone ==
    /\ variant = "backend"
    /\ refreshPc = "weather"
    /\ \E ok \in BOOLEAN, p \in WeatherPayloads :
          /\ LET c1 == [cached EXCEPT
                          !.weather = StoreIfData(@, ok, WeatherSlot(p))]
             IN IF env.pollution # "none"
                THEN /\ cached' = c1
                     /\ refreshPc' = "pollution"
                ELSE /\ cached' = [c1 EXCEPT !.lastFetched = now]
                     /\ refreshPc' = "idle"
          /\ request' = TimerRequest(IF ok THEN "refresh" ELSE "refreshFailed")
    /\ response' = NoResponse
    /\ UNCHANGED <<offServer, refreshRest, logRun, variant, now, windowState, currentCommand, env,
                   nextRefreshAt, nextDecisionAt, openMeteoCache, pending,
                   manualChoice, ctlOutcome, lastDecisionAt>>

\* the pollution fetch returns (data, or null on failure)
RefreshPollutionDone ==
    /\ variant = "backend"
    /\ refreshPc = "pollution"
    /\ \E ok \in BOOLEAN, a \in PollutionPayloads(env.pollution) :
          /\ LET c1 == [cached EXCEPT
                          !.pollution =
                              StoreIfData(@, ok, PollutionSlot(env.pollution, a))]
             IN cached' = [c1 EXCEPT !.lastFetched = now]
          /\ request' = TimerRequest(IF ok THEN "refresh" ELSE "refreshFailed")
    /\ refreshPc' = "idle"
    /\ response' = NoResponse
    /\ UNCHANGED <<offServer, refreshRest, logRun, variant, now, windowState, currentCommand, env,
                   nextRefreshAt, nextDecisionAt, openMeteoCache, pending,
                   manualChoice, ctlOutcome, lastDecisionAt>>

\* -------------------------------------------------- decision function
\* Math.floor(Math.random() * 100), ... : representative draws of the mock
MockPollution == {30, 80}
MockSunlight == {40, 70}
MockWind == {10, 45}

WeatherData(p, s, w) == [pollution |-> p, sunlight |-> s, windSpeed |-> w]

\* getWeatherData() of server.js / getMockWeatherData() of part_001
MockWeatherData ==
    { WeatherData(Some(p), Some(s), Some(w)) :
        p \in MockPollution, s \in MockSunlight, w \in MockWind }

\* relational comparison of a possibly-null value with a number
JsGt(v, n) == ToNumber(v) > n
JsLt(v, n) == ToNumber(v) < n

\* mutant: a sunlight of exactly 50 % is enough to open
shouldWindowBeOpenAtFifty(wd) ==
    IF JsGt(wd.pollution, 70) THEN FALSE
    ELSE IF JsGt(wd.windSpeed, 40) THEN FALSE
    ELSE IF ~JsLt(wd.sunlight, 50) /\ JsLt(wd.pollution, 50) /\ JsLt(wd.windSpeed, 30)
         THEN TRUE
    ELSE FALSE

shouldWindowBeOpen(wd) ==
    IF JsGt(wd.pollution, 70) THEN FALSE
    ELSE IF JsGt(wd.windSpeed, 40) THEN FALSE
    ELSE IF JsGt(wd.sunlight, 50) /\ JsLt(wd.pollution, 50) /\ JsLt(wd.windSpeed, 30)
         THEN TRUE
    ELSE FALSE

\* mutant: the index is scaled from 0 (1 -> 0, 5 -> 250)
OpenWeatherToAqiFromZero(a) == ((a - 1) * 250) \div 4

\* Math.min(300, Math.round(((a - 1) / 4) * 250 + 50))
OpenWeatherToAqi(a) ==
    LET r == ((a - 1) * 500 + 4) \div 8 + 50 IN IF r > 300 THEN 300 ELSE r

PollutionVal(p) ==
    IF p.source = "iqair" /\ TruthyNum(p.aqi) THEN p.aqi
    ELSE IF p.source = "openweather" /\ TruthyNum(p.aqi)
         THEN Some(OpenWeatherToAqi(p.aqi[1]))
    ELSE Null

\* the weatherData object synthesized from `cached`; Null when the mapping is
\* not possible
SynthWeatherData(c) ==
    LET pollutionVal == PollutionVal(c.pollution)
        sunlightVal == c.weather.sunlight
        windVal == IF TruthyNum(c.weather.wind) THEN c.weather.wind ELSE Null
    IN IF IsNull(pollutionVal) THEN Null
       ELSE Some(WeatherData(pollutionVal,
                             IF TruthyNum(sunlightVal) THEN sunlightVal ELSE Some(50),
                             IF TruthyNum(windVal) THEN windVal ELSE Some(10)))

\* the readings the recommendation endpoint may evaluate
RecommendationData(c) ==
    IF c.weather.source # "null" /\ c.pollution.source # "null"
       /\ ~IsNull(SynthWeatherData(c))
    THEN {SynthWeatherData(c)[1]}
    ELSE MockWeatherData

\* the readings the decision timer may evaluate
DecisionData(c) ==
    IF (c.pollution.source # "null" \/ c.weather.source # "null")
       /\ ~IsNull(SynthWeatherData(c))
    THEN {SynthWeatherData(c)[1]}
    ELSE MockWeatherData

\* ------------------------------------------- the decision function by itself
\* the values a reading may carry, around the thresholds of the rule
PollutionValues == {0, 30, 49, 50, 51, 70, 71, 80, 100}
WindValues == {0, 10, 29, 30, 31, 40, 41, 50}
SunlightValues == {0, 50, 51, 70, 90, 100}

Readings ==
    { WeatherData(Some(p), Some(s), Some(w)) :
        p \in PollutionValues, s \in SunlightValues, w \in WindValues }

\* the normalized readings fetchAndNormalizeOpenMeteo may return, each value
\* null when the provider's answer lacks it
NormalizedInputs ==
    [wind_speed : {Null, Some(0), Some(10), Some(29), Some(45)},
     is_day : {"null", "true", "false"},
     european_aqi : {Null, Some(30), Some(49), Some(80)}]

\* ------------------------------------------------ BLE provisioning string
\* the longest SSID or password entered
MaxTextLen == 2

\* the characters of an SSID or a password: a letter and the separator
TextChars == {"a", ";"}

RECURSIVE TextsOfLen(_)
TextsOfLen(n) ==
    IF n = 0 THEN {<<>>}
    ELSE {Append(t, c) : t \in TextsOfLen(n - 1), c \in TextChars}

\* what the user may type into the SSID and password fields
Texts == UNION {TextsOfLen(n) : n \in 0..MaxTextLen}

\* what the user may type into the latitude and longitude fields
CoordTexts == {<<"4">>, <<"4", "5">>, <<"5">>}

\* the four fields of the setup form (mobile/App.tsx 31-34)
Configs == [ssid : Texts, password : Texts, lat : CoordTexts, lon : CoordTexts]

\* const configStr = `${ssid};${password};${lat};${lon}`
configStr(c) ==
    c.ssid \o <<";">> \o c.password \o <<";">> \o c.lat \o <<";">> \o c.lon

\* String::indexOf(ch, fromIndex), 0-based, -1 when not found
indexOf(data, ch, from) ==
    LET hits == {i \in 0..(Len(data) - 1) : i >= from /\ data[i + 1] = ch}
    IN IF hits = {} THEN -1
       ELSE CHOOSE i \in hits : \A j \in hits : i <= j

\* String::substring(left, right): the characters left .. right-1, the bounds
\* swapped when left > right and right cut to the length
substring(data, left, right) ==
    LET l == IF left > right THEN right ELSE left
        r0 == IF left > right THEN left ELSE right
        r == IF r0 > Len(data) THEN Len(data) ELSE r0
    IN IF l >= Len(data) \/ l < 0 THEN <<>>
       ELSE SubSeq(data, l + 1, r)

DigitValue(ch) == IF ch = "4" THEN 4 ELSE IF ch = "5" THEN 5 ELSE -1

\* String::toFloat(): the number written by the leading digits, 0 without any
RECURSIVE toFloatFrom(_, _)
toFloatFrom(acc, text) ==
    IF text = <<>> \/ DigitValue(Head(text)) < 0 THEN acc
    ELSE toFloatFrom(acc * 10 + DigitValue(Head(text)), Tail(text))

toFloat(text) == toFloatFrom(0, text)

\* the stored configuration before any write: wifi_ssid = "", wifi_pass = "",
\* latitude = 45.18, longitude = 5.72 (kept as 45 and 5 here)
NoConfig == [ssid |-> <<>>, password |-> <<>>, latitude |-> 45, longitude |-> 5]

\* ConfigCallbacks::onWrite: split at the first three ';'
onWrite(stored, data) ==
    LET s1 == indexOf(data, ";", 0)
        s2 == indexOf(data, ";", s1 + 1)
        s3 == indexOf(data, ";", s2 + 1)
    IN IF Len(data) > 0 /\ s3 > 0
       THEN [ssid      |-> substring(data, 0, s1),
             password  |-> substring(data, s1 + 1, s2),
             latitude  |-> toFloat(substring(data, s2 + 1, s3)),
             longitude |-> toFloat(substring(data, s3 + 1, Len(data)))]
       ELSE stored

NoEval == [normalized |-> [wind_speed |-> Null, is_day |-> "null",
                           european_aqi |-> Null],
           reading |-> WeatherData(Null, Null, Null), decided |-> FALSE,
           shouldBeOpen |-> FALSE,
           config |-> [ssid |-> <<>>, password |-> <<>>, lat |-> <<"4">>,
                       lon |-> <<"4">>],
           stored |-> NoConfig, written |-> FALSE,
           setArg |-> FALSE, snapshots |-> <<>>]

\* scanAndConfigure writes the form to the characteristic and the firmware's
\* onWrite callback stores what it parses
WriteConfig ==
    /\ ~eval.written
    /\ eval' = [eval EXCEPT !.written = TRUE,
                            !.stored = onWrite(eval.stored, configStr(eval.config))]
    /\ UNCHANGED <<device, app, refreshRest, logRun, variant, now, windowState,
                   currentCommand, cached, env, refreshPc, nextRefreshAt,
                   nextDecisionAt, openMeteoCache, pending, request, response,
                   manualChoice, ctlOutcome, lastDecisionAt>>

\* const shouldBeOpen = shouldWindowBeOpen(weatherData)
Decide ==
    /\ ~eval.decided
    /\ eval' = [eval EXCEPT !.decided = TRUE,
                            !.shouldBeOpen = shouldWindowBeOpen(eval.reading)]
    /\ UNCHANGED <<device, app, refreshRest, logRun, variant, now, windowState,
                   currentCommand, cached, env, refreshPc, nextRefreshAt,
                   nextDecisionAt, openMeteoCache, pending, request, response,
                   manualChoice, ctlOutcome, lastDecisionAt>>

\* ------------------------------------------------------ device: firmware
\* bool isOpen = false; float lastTemp = 0.0; int lastAQI = 0; command is the
\* local of checkSystem(): the order read in its latest run, "none" when that
\* run read no answer
\* lastWeatherCheck is 0 until the first weather step and 1 (some later time)
\* after it; weatherRead records whether a weather answer has ever been read;
\* servo is the angle last written to windowServo (-1: none since boot) and
\* moved tells whether the latest call of setWindow wrote one
InitDevice ==
    [isOpen |-> FALSE, lastTemp |-> 0, lastAQI |-> 0, lastWeatherCheck |-> 0,
     command |-> "none", weatherRead |-> FALSE, servo |-> -1, moved |-> FALSE]

\* the outcome of the weather step of checkSystem(): not due yet (less than
\* 60 s since the last one; the device's own clock is not modelled), code <= 0,
\* or an answer with a temperature and an air-quality index that may be null
WeatherAnswers ==
    {[code |-> c, temperature_2m |-> 20, european_aqi |-> Null] :
        c \in {"skipped", "failed"}}
    \cup [code : {"ok"}, temperature_2m : {20, 31},
          european_aqi : {Null, Some(51)}]

\* lastTemp = ...; lastAQI = ...; if (...isNull()) lastAQI = 20;
\* lastWeatherCheck = millis();
AfterWeather(d, a) ==
    IF a.code = "ok"
    THEN [d EXCEPT !.lastTemp = a.temperature_2m,
                   !.lastAQI = IF IsNull(a.european_aqi) THEN 20
                               ELSE ToNumber(a.european_aqi),
                   !.lastWeatherCheck = 1,
                   !.weatherRead = TRUE]
    ELSE IF a.code = "failed" THEN [d EXCEPT !.lastWeatherCheck = 1]
    ELSE d

\* serializeJson of a number of the log document
JsonNumber(n) ==
    CASE n = 0  -> "num:0"
      [] n = 20 -> "num:20"
      [] n = 31 -> "num:31"
      [] n = 51 -> "num:51"

\* mutant: the servo is written on every call
setWindowAlwaysWrites(d, open) ==
    [d EXCEPT !.isOpen = open, !.servo = IF open THEN 90 ELSE 0,
              !.moved = TRUE]

\* void setWindow(bool open): the servo is written only when the position
\* changes
setWindow(d, open) ==
    IF d.isOpen = open THEN [d EXCEPT !.moved = FALSE]
    ELSE [d EXCEPT !.isOpen = open, !.servo = IF open THEN 90 ELSE 0,
                   !.moved = TRUE]

\* the states the globals and the servo can be in between two calls
DeviceStates ==
    {d \in [isOpen : BOOLEAN, lastTemp : {0, 20, 31}, lastAQI : {0, 20, 51},
            lastWeatherCheck : {0, 1}, command : {"none"},
            weatherRead : BOOLEAN, servo : {-1, 0, 90}, moved : BOOLEAN] :
        /\ d.isOpen <=> d.servo = 90
        /\ d.servo = -1 => ~d.moved
        /\ d.weatherRead <=> d.lastTemp # 0
        /\ d.weatherRead <=> d.lastAQI # 0
        /\ d.weatherRead => d.lastWeatherCheck = 1}

\* one more call of setWindow with the same argument
CallSetWindow ==
    /\ Len(eval.snapshots) \in 1..2
    /\ device' = setWindow(device, eval.setArg)
    /\ eval' = [eval EXCEPT !.snapshots = Append(@, device')]
    /\ UNCHANGED <<app, refreshRest, logRun, variant, now, windowState,
                   currentCommand, cached, env, refreshPc, nextRefreshAt,
                   nextDecisionAt, openMeteoCache, pending, request, response,
                   manualChoice, ctlOutcome, lastDecisionAt>>

\* mutant: the order of the server is ignored, the stored weather decides
ApplyCommandWeatherOnly(d, command) ==
    setWindow(d, ~(d.lastTemp > 30 \/ d.lastAQI > 50))

\* the if / else if / else on the order read from the answer
ApplyCommand(d, command) ==
    IF command = "OPEN" THEN setWindow(d, TRUE)
    ELSE IF command = "CLOSE" THEN setWindow(d, FALSE)
    ELSE setWindow(d, ~(d.lastTemp > 30 \/ d.lastAQI > 50))

\* the outcome of a run of checkSystem(): WiFi is down, or the POST is sent and
\* the request never reaches the server, or the server handles it but its
\* answer is not read (httpResponseCode <= 0 in both cases), or the answer is
\* read
PostOutcomes == {"nowifi", "lost", "unanswered", "ok"}

\* mutant: a run that reads no order closes the window
AfterMissedResponseCloses(d) == [setWindow(d, FALSE) EXCEPT !.command = "none"]

\* if (httpResponseCode > 0) { ... } is skipped: nothing is applied
AfterMissedResponse(d) == [d EXCEPT !.command = "none"]

\* mutant: the position reported is the one the device booted with
ReportedIsOpenAtBoot(d) == "false"

\* logDoc["isOpen"] = isOpen
ReportedIsOpen(d) == JsBool(d.isOpen)

\* void checkSystem() against the command server's POST /api/window/log; the
\* weather step is skipped only when one has run before (lastWeatherCheck != 0)
checkSystemWith(outcome) ==
    /\ IsCommandVariant
    /\ IF outcome = "nowifi"
       THEN /\ device' = AfterMissedResponse(device)
            /\ UNCHANGED <<windowState, currentCommand, request, response,
                           logRun>>
       ELSE \E a \in WeatherAnswers :
          /\ a.code = "skipped" => device.lastWeatherCheck # 0
          /\ LET d1     == AfterWeather(device, a)
                 temp   == JsonNumber(d1.lastTemp)
                 aqi    == JsonNumber(d1.lastAQI)
                 isOpen == ReportedIsOpen(d1)
             IN IF outcome = "lost"
                THEN /\ device' = AfterMissedResponse(d1)
                     /\ UNCHANGED <<windowState, currentCommand, request,
                                    response, logRun>>
                ELSE /\ LogHandler(temp, aqi, isOpen)
                     /\ request' = LogRequest(temp, aqi, isOpen)
                     /\ logRun' = LogRunAfter(logRun, temp, aqi, isOpen,
                                              response'.command)
                     /\ device' =
                           IF outcome = "ok"
                           THEN [ApplyCommand(d1, response'.command)
                                    EXCEPT !.command = response'.command]
                           ELSE AfterMissedResponse(d1)
    /\ UNCHANGED <<eval, app, refreshRest, variant, now, cached, env, refreshPc,
                   nextRefreshAt, nextDecisionAt, openMeteoCache, pending,
                   manualChoice, ctlOutcome, lastDecisionAt>>

checkSystem == \E outcome \in PostOutcomes : checkSystemWith(outcome)

\* a run of checkSystem() whose POST is answered
checkSystemOk == checkSystemWith("ok")

\* ------------------------------------------ mobile application (App.tsx)
\* useState: tab 'SETUP', bleStatus 'En attente...', scanning false,
\* windowState null (fetched is FALSE while it is null). scan tells whether the
\* BLE manager is scanning; timer is the pending scan timeout and timerSees
\* the value of `scanning` its callback has closed over.
InitApp ==
    [tab |-> "SETUP", bleStatus |-> "En attente...", scanning |-> FALSE,
     scan |-> FALSE, timer |-> "none", timerSees |-> FALSE,
     fetched |-> FALSE, autoMode |-> "undefined", isOpen |-> "undefined"]

\* windowState?.autoMode
ShownAutoMode(a) == IF a.fetched THEN a.autoMode ELSE "undefined"

\* <Switch value={windowState?.autoMode ?? true}>
SwitchValue(a) ==
    IF ShownAutoMode(a) \in {"undefined", "null"} THEN TRUE
    ELSE Truthy(ShownAutoMode(a))

\* {!windowState?.autoMode && ( ...OUVRIR / FERMER... )} on the dashboard tab
ButtonsShown(a) == a.tab = "DASHBOARD" /\ ~Truthy(ShownAutoMode(a))

\* the server is not involved in a step of the application
AppOnly ==
    UNCHANGED <<eval, device, refreshRest, logRun, variant, now, windowState,
                currentCommand, cached, env, refreshPc, nextRefreshAt,
                nextDecisionAt, openMeteoCache, pending, request, response,
                manualChoice, ctlOutcome, lastDecisionAt>>

\* onPress of the two tabs
SetTab ==
    /\ \E t \in {"SETUP", "DASHBOARD"} : app' = [app EXCEPT !.tab = t]
    /\ AppOnly

\* fetchStatus(): GET /api/window/status answered, setWindowState(data); it runs
\* on entering the dashboard, after a control request and on 'Actualiser'
fetchStatus ==
    /\ IsCommandVariant
    /\ app.tab = "DASHBOARD"
    /\ response' = StateResponse("status", "undefined", windowState,
                                 JsBool(currentCommand = "AUTO"))
    /\ request' = GetRequest("status")
    /\ app' = [app EXCEPT !.fetched = TRUE, !.autoMode = response'.autoMode,
                          !.isOpen = response'.isOpen]
    /\ UNCHANGED <<eval, device, refreshRest, logRun, variant, now,
                   windowState, currentCommand, cached, env, refreshPc,
                   nextRefreshAt, nextDecisionAt, openMeteoCache, pending,
                   manualChoice, ctlOutcome, lastDecisionAt>>

\* the POST /api/window/control of sendCommand and toggleAutoMode
AppControl(action, autoMode) ==
    /\ IsCommandVariant
    /\ ControlHandlerCommand(action, autoMode)
    /\ request' = ControlRequest(action, autoMode)
    /\ ctlOutcome' = currentCommand'
    /\ logRun' = NoLogRun
    /\ UNCHANGED <<eval, device, app, refreshRest, variant, now, cached, env,
                   refreshPc, nextRefreshAt, nextDecisionAt, openMeteoCache,
                   pending, manualChoice, lastDecisionAt>>

\* sendCommand(action): body { action, autoMode: false }, from a shown button
sendCommand ==
    /\ ButtonsShown(app)
    /\ \E action \in {"open", "close"} : AppControl(action, "false")

\* toggleAutoMode(value): the switch is flipped, body { autoMode: value }
toggleAutoMode ==
    /\ app.tab = "DASHBOARD"
    /\ AppControl("undefined", JsBool(~SwitchValue(app)))

\* scanAndConfigure() up to its return: the scan starts and the timeout is
\* set; its callback reads the `scanning` of the render that created it
scanAndConfigure ==
    /\ app.tab = "SETUP"
    /\ ~app.scanning
    /\ app' = [app EXCEPT !.scanning = TRUE, !.bleStatus = "Recherche ESP32...",
                          !.scan = TRUE, !.timer = "armed",
                          !.timerSees = app.scanning]
    /\ AppOnly

\* the scan callback with an error
ScanError ==
    /\ app.scan
    /\ app' = [app EXCEPT !.bleStatus = "Erreur Scan", !.scanning = FALSE,
                          !.scan = FALSE]
    /\ AppOnly

\* the scan callback with the device named ESP32_SmartWindow
ScanFound ==
    /\ app.scan
    /\ app' = [app EXCEPT !.scan = FALSE, !.bleStatus = "Connexion..."]
    /\ AppOnly

\* handleSuccess(), after the write or its failure, with the switch to the
\* dashboard it schedules
handleSuccess ==
    /\ app.bleStatus = "Connexion..."
    /\ app' = [app EXCEPT !.bleStatus = "Config envoyee", !.scanning = FALSE,
                          !.tab = "DASHBOARD"]
    /\ AppOnly

\* if (scanning) in the timeout callback: the closed-over value
ScanTimeoutSees(a) == a.timerSees

\* the callback of setTimeout(..., 15000)
ScanTimeout ==
    /\ app.timer = "armed"
    /\ app' = IF ScanTimeoutSees(app)
              THEN [app EXCEPT !.timer = "none", !.scan = FALSE,
                               !.scanning = FALSE, !.bleStatus = "Timeout"]
              ELSE [app EXCEPT !.timer = "none"]
    /\ AppOnly

\* ------------------------------------------- windowState variants: control
IsStateVariant == variant \in {"backend", "open_meteo"}

\* mutant: every control request stamps lastUpdated
WindowStateAfterControlStamps(ws, action, autoMode) ==
    LET ws1 == IF autoMode # "undefined" THEN [ws EXCEPT !.autoMode = autoMode]
               ELSE ws
    IN IF action = "open" \/ action = "close"
       THEN [ws1 EXCEPT !.isOpen = JsBool(action = "open"), !.lastUpdated = now,
                        !.autoMode = "false"]
       ELSE [ws1 EXCEPT !.lastUpdated = now]

\* mutant: entering auto mode also resets the position to closed
WindowStateAfterControlCloses(ws, action, autoMode) ==
    LET ws1 == IF autoMode # "undefined"
               THEN [ws EXCEPT !.autoMode = autoMode,
                               !.isOpen = IF autoMode = "true" THEN "false" ELSE @]
               ELSE ws
    IN IF action = "open" \/ action = "close"
       THEN [ws1 EXCEPT !.isOpen = JsBool(action = "open"), !.lastUpdated = now,
                        !.autoMode = "false"]
       ELSE ws1

\* POST /api/window/control of server.js 336-353 and part_001 517-534
WindowStateAfterControl(ws, action, autoMode) ==
    LET ws1 == IF autoMode # "undefined" THEN [ws EXCEPT !.autoMode = autoMode]
               ELSE ws
    IN IF action = "open" \/ action = "close"
       THEN [ws1 EXCEPT !.isOpen = JsBool(action = "open"), !.lastUpdated = now,
                        !.autoMode = "false"]
       ELSE ws1

PostControlStateWith(actions, autoModes) ==
    /\ IsStateVariant
    /\ \E action \in actions, autoMode \in autoModes :
          /\ windowState' = WindowStateAfterControl(windowState, action, autoMode)
          /\ request' = ControlRequest(action, autoMode)
          /\ manualChoice' =
                IF action \in {"open", "close"} THEN action
                ELSE IF autoMode # "undefined" /\ Truthy(autoMode) THEN "none"
                ELSE manualChoice
    /\ response' = StateResponse("control", "true", windowState',
                                 windowState'.autoMode)
    /\ UNCHANGED <<offServer, refreshRest, logRun, variant, now, currentCommand, cached, env, refreshPc,
                   nextRefreshAt, nextDecisionAt, openMeteoCache, pending,
                   ctlOutcome, lastDecisionAt>>

PostControlState == PostControlStateWith(ActionVals, AutoModeVals)

\* the requests of a user who opens the window by hand and hands it back to
\* the automatic mode: { action: 'open' } and { autoMode: true }
PostControlFromApp ==
    PostControlStateWith({"undefined", "open"}, {"undefined", "true"})

\* GET /api/window/status: res.json(windowState)
GetStatusState ==
    /\ IsStateVariant
    /\ response' = StateResponse("status", "undefined", windowState,
                                 windowState.autoMode)
    /\ request' = GetRequest("status")
    /\ UNCHANGED <<offServer, refreshRest, logRun, variant, now, windowState, currentCommand, cached, env,
                   refreshPc, nextRefreshAt, nextDecisionAt, openMeteoCache,
                   pending, manualChoice, ctlOutcome, lastDecisionAt>>

\* mutant: an automatic evaluation opens the window but never closes it
ApplyDecisionOnlyOpens(ws, shouldBeOpen) ==
    IF shouldBeOpen /\ ws.isOpen # "true"
    THEN [ws EXCEPT !.isOpen = "true", !.lastUpdated = now]
    ELSE ws

\* mutant: every automatic evaluation stamps lastUpdated
ApplyDecisionAlwaysStamps(ws, shouldBeOpen) ==
    [ws EXCEPT !.isOpen = JsBool(shouldBeOpen), !.lastUpdated = now]

\* the write at the end of an automatic evaluation
ApplyDecision(ws, shouldBeOpen) ==
    IF ws.isOpen # JsBool(shouldBeOpen)
    THEN [ws EXCEPT !.isOpen = JsBool(shouldBeOpen), !.lastUpdated = now]
    ELSE ws

\* ------------------------------------------- backend: recommendation, timer
\* GET /api/window/recommendation
GetRecommendationBackend ==
    /\ variant = "backend"
    /\ \E wd \in RecommendationData(cached) :
          response' = [NoResponse EXCEPT
                          !.route = "recommendation", !.status = 200,
                          !.recommendation =
                              IF shouldWindowBeOpen(wd) THEN "open" ELSE "close"]
    /\ request' = GetRequest("recommendation")
    /\ UNCHANGED <<offServer, refreshRest, logRun, variant, now, windowState, currentCommand, cached, env,
                   refreshPc, nextRefreshAt, nextDecisionAt, openMeteoCache,
                   pending, manualChoice, ctlOutcome, lastDecisionAt>>

\* GET /api/weather and GET /api/pollution: answer from `cached` (or the mock)
GetWeatherBackend ==
    /\ variant = "backend"
    /\ \E route \in {"weather", "pollution"} :
          /\ request' = GetRequest(route)
          /\ response' = [NoResponse EXCEPT
                             !.route = route,
                             !.status = IF route = "pollution"
                                           /\ cached.pollution.source = "null"
                                        THEN 404 ELSE 200]
    /\ UNCHANGED <<offServer, refreshRest, logRun, variant, now, windowState, currentCommand, cached, env,
                   refreshPc, nextRefreshAt, nextDecisionAt, openMeteoCache,
                   pending, manualChoice, ctlOutcome, lastDecisionAt>>

\* mutant: the timer evaluates whatever the mode
DecisionGateAlways(ws) == TRUE

\* mutant: the timer only stops for autoMode === false
DecisionGateLoose(ws) == ws.autoMode # "false"

\* does the decision timer evaluate? (server.js 408: if (!autoMode) return)
DecisionGate(ws) == Truthy(ws.autoMode)

\* mutant: the decision timer runs at the refresh cadence
DecisionPeriodFetch == FetchInterval

\* delay to the next run of the decision setInterval
DecisionPeriod == DecisionInterval

\* the auto-update setInterval callback of server.js 407-450
DecisionTickBackend ==
    /\ variant = "backend"
    /\ now >= nextDecisionAt
    /\ nextDecisionAt' = now + DecisionPeriod
    /\ request' = TimerRequest("decisionTick")
    /\ IF DecisionGate(windowState)
       THEN /\ \E wd \in DecisionData(cached) :
                  windowState' = ApplyDecision(windowState, shouldWindowBeOpen(wd))
            /\ lastDecisionAt' = now
       ELSE UNCHANGED <<windowState, lastDecisionAt>>
    /\ response' = NoResponse
    /\ UNCHANGED <<offServer, refreshRest, logRun, variant, now, currentCommand, cached, env, refreshPc,
                   nextRefreshAt, openMeteoCache, pending,
                   manualChoice, ctlOutcome>>

\* --------------------------------------------- open_meteo: cache and getter
\* the period of the auto-update setInterval (30000 ms), in model time units
AutoUpdateInterval == 1

\* `${DEFAULT_LAT || '45.1885'},${DEFAULT_LON || '5.7245'}`
DefaultKey == "45.1885,5.7245"

\* the key of a query that writes the default coordinates with a trailing zero:
\* `${req.query.lat},${req.query.lon}` for lat=45.18850, lon=5.7245
AltKey == "45.18850,5.7245"

\* the keys app.locals.openMeteoCache may hold
CacheKeys == {DefaultKey, AltKey}

\* the coordinates a key stands for (Number(lat), Number(lon)), in 1e-4 degree
Coordinates(k) ==
    IF k \in {"45.1885,5.7245", "45.18850,5.7245"} THEN <<451885, 57245>>
    ELSE <<0, 0>>

\* the callers that await fetchAndNormalizeOpenMeteo(): those of the
\* asynchronous getWeatherData() and GET /api/external/open-meteo; at most one
\* call of each is kept in flight
Callers == {"tick", "weather", "recommendation", "open-meteo",
            "open-meteo-query"}

NoPending == {}

\* an absent key of app.locals.openMeteoCache
NoEntry == [present |-> FALSE, fetchedAt |-> -1, wind_speed |-> Null,
            is_day |-> "null", european_aqi |-> Null]

InitOpenMeteoCache == [k \in CacheKeys |-> NoEntry]

\* what fetchAndNormalizeOpenMeteo may return: wind_speed, is_day, european_aqi
\* (each null when the provider's answer lacks it)
NormalizedPayloads ==
    { [wind_speed |-> Some(10), is_day |-> "true", european_aqi |-> Some(30)],
      [wind_speed |-> Some(10), is_day |-> "true", european_aqi |-> Some(80)],
      [wind_speed |-> Null, is_day |-> "null", european_aqi |-> Null] }

\* { fetchedAt: Date.now(), data: result }
CacheEntry(p) ==
    [present |-> TRUE, fetchedAt |-> now, wind_speed |-> p.wind_speed,
     is_day |-> p.is_day, european_aqi |-> p.european_aqi]

\* mapNormalizedToLegacy: the legacy readings a normalized one may map to
\* (sunlight is random when is_day is null)
mapNormalizedToLegacy(n) ==
    { WeatherData(n.european_aqi, s, n.wind_speed) :
        s \in IF n.is_day = "null" THEN {Some(m) : m \in MockSunlight}
              ELSE IF n.is_day = "true" THEN {Some(100)}
              ELSE {Some(0)} }

\* getWeatherData() returns without awaiting the provider iff the default key
\* is cached
HasCachedDefault == openMeteoCache[DefaultKey].present

\* the outcomes of the provider call inside getWeatherData(): the new cache and
\* the reading returned (the mock when the fetch throws)
GetWeatherDataOutcomes ==
    UNION { { [cache |-> [openMeteoCache EXCEPT ![DefaultKey] = CacheEntry(p)],
               data |-> wd] : wd \in mapNormalizedToLegacy(p) } :
            p \in NormalizedPayloads }
    \cup { [cache |-> openMeteoCache, data |-> wd] : wd \in MockWeatherData }

RouteResponse(route, wd) ==
    [NoResponse EXCEPT
        !.route = route, !.status = 200,
        !.recommendation =
            IF route = "recommendation"
            THEN (IF shouldWindowBeOpen(wd) THEN "open" ELSE "close")
            ELSE "undefined"]

\* GET /api/weather, GET /api/window/recommendation: up to the await
GetWeatherDataStart ==
    /\ variant = "open_meteo"
    /\ \E route \in {"weather", "recommendation"} :
          /\ request' = GetRequest(route)
          /\ IF HasCachedDefault
             THEN /\ \E wd \in mapNormalizedToLegacy(openMeteoCache[DefaultKey]) :
                        response' = RouteResponse(route, wd)
                  /\ pending' = pending
             ELSE /\ route \notin pending
                  /\ pending' = pending \cup {route}
                  /\ response' = NoResponse
    /\ UNCHANGED <<offServer, refreshRest, logRun, variant, now, windowState, currentCommand, cached, env,
                   refreshPc, nextRefreshAt, nextDecisionAt, openMeteoCache,
                   manualChoice, ctlOutcome, lastDecisionAt>>

\* ... and after it: the provider call has returned or thrown
GetWeatherDataResume ==
    /\ variant = "open_meteo"
    /\ \E route \in {"weather", "recommendation"} :
          /\ route \in pending
          /\ pending' = pending \ {route}
          /\ request' = GetRequest(route)
          /\ \E o \in GetWeatherDataOutcomes :
                /\ openMeteoCache' = o.cache
                /\ response' = RouteResponse(route, o.data)
    /\ UNCHANGED <<offServer, refreshRest, logRun, variant, now, windowState, currentCommand, cached, env,
                   refreshPc, nextRefreshAt, nextDecisionAt, manualChoice,
                   ctlOutcome, lastDecisionAt>>

\* ------------------------------------- open_meteo: endpoint, hourly refresh
\* the test below with an entry of age exactly the TTL still counted as fresh
IsFreshInclusive(e) == e.present /\ now - e.fetchedAt <= env.ttl

\* if (cached && (Date.now() - cached.fetchedAt) < TTL)
IsFresh(e) == e.present /\ now - e.fetchedAt < env.ttl

\* res.json({ cached, ...data }) / res.status(500).json({ error })
OpenMeteoResponse(status, fromCache) ==
    [NoResponse EXCEPT !.route = "open-meteo", !.status = status,
                       !.cached = fromCache]

\* GET /api/external/open-meteo for the default coordinates, up to the await
GetOpenMeteoStart ==
    /\ variant = "open_meteo"
    /\ request' = GetRequest("open-meteo")
    /\ IF IsFresh(openMeteoCache[DefaultKey])
       THEN /\ response' = OpenMeteoResponse(200, "true")
            /\ pending' = pending
       ELSE /\ "open-meteo" \notin pending
            /\ pending' = pending \cup {"open-meteo"}
            /\ response' = NoResponse
    /\ UNCHANGED <<offServer, refreshRest, logRun, variant, now, windowState, currentCommand, cached,
                   env, refreshPc, nextRefreshAt, nextDecisionAt,
                   openMeteoCache, manualChoice, ctlOutcome, lastDecisionAt>>

\* ... and after it: the result is stored and returned, a throw is answered
\* with status 500
GetOpenMeteoResume ==
    /\ variant = "open_meteo"
    /\ "open-meteo" \in pending
    /\ pending' = pending \ {"open-meteo"}
    /\ request' = GetRequest("open-meteo")
    /\ \E ok \in BOOLEAN, p \in NormalizedPayloads :
          IF ok
          THEN /\ openMeteoCache' = [openMeteoCache EXCEPT
                                        ![DefaultKey] = CacheEntry(p)]
               /\ response' = OpenMeteoResponse(200, "false")
          ELSE /\ openMeteoCache' = openMeteoCache
               /\ response' = OpenMeteoResponse(500, "undefined")
    /\ UNCHANGED <<offServer, refreshRest, logRun, variant, now, windowState, currentCommand, cached,
                   env, refreshPc, nextRefreshAt, nextDecisionAt,
                   manualChoice, ctlOutcome, lastDecisionAt>>

\* GET /api/external/open-meteo?lat=45.18850&lon=5.7245, up to the await
GetOpenMeteoQueryStart ==
    /\ variant = "open_meteo"
    /\ request' = GetRequest("open-meteo-query")
    /\ IF IsFresh(openMeteoCache[AltKey])
       THEN /\ response' = [OpenMeteoResponse(200, "true") EXCEPT
                               !.route = "open-meteo-query"]
            /\ pending' = pending
       ELSE /\ "open-meteo-query" \notin pending
            /\ pending' = pending \cup {"open-meteo-query"}
            /\ response' = NoResponse
    /\ UNCHANGED <<offServer, refreshRest, logRun, variant, now, windowState, currentCommand, cached,
                   env, refreshPc, nextRefreshAt, nextDecisionAt,
                   openMeteoCache, manualChoice, ctlOutcome, lastDecisionAt>>

\* ... and after it
GetOpenMeteoQueryResume ==
    /\ variant = "open_meteo"
    /\ "open-meteo-query" \in pending
    /\ pending' = pending \ {"open-meteo-query"}
    /\ request' = GetRequest("open-meteo-query")
    /\ \E ok \in BOOLEAN, p \in NormalizedPayloads :
          IF ok
          THEN /\ openMeteoCache' = [openMeteoCache EXCEPT
                                        ![AltKey] = CacheEntry(p)]
               /\ response' = [OpenMeteoResponse(200, "false") EXCEPT
                                  !.route = "open-meteo-query"]
          ELSE /\ openMeteoCache' = openMeteoCache
               /\ response' = [OpenMeteoResponse(500, "undefined") EXCEPT
                                  !.route = "open-meteo-query"]
    /\ UNCHANGED <<offServer, refreshRest, logRun, variant, now, windowState, currentCommand, cached,
                   env, refreshPc, nextRefreshAt, nextDecisionAt,
                   manualChoice, ctlOutcome, lastDecisionAt>>

\* Object.keys(cache): the keys present when the refresh callback starts
PresentKeys == {k \in CacheKeys : openMeteoCache[k].present}

\* the setInterval callback of scheduleOpenMeteoRefresh, up to its first await:
\* the loop visits the keys present at its start (at most one run of the
\* callback is kept in flight; the insertion order of the keys is not modelled,
\* any order of visit is allowed)
OpenMeteoRefreshStart ==
    /\ variant = "open_meteo"
    /\ refreshPc = "idle"
    /\ now >= nextRefreshAt
    /\ nextRefreshAt' = now + env.ttl
    /\ IF PresentKeys = {}
       THEN /\ refreshPc' = "idle"
            /\ refreshRest' = {}
       ELSE \E k \in PresentKeys :
               /\ refreshPc' = k
               /\ refreshRest' = PresentKeys \ {k}
    /\ request' = TimerRequest("refresh")
    /\ response' = NoResponse
    /\ UNCHANGED <<offServer, logRun, variant, now, windowState, currentCommand, cached,
                   env, nextDecisionAt, openMeteoCache, pending, manualChoice,
                   ctlOutcome, lastDecisionAt>>

\* the fetch for the key returns (the entry is overwritten) or throws (the
\* catch logs); the loop goes on with the next key or ends
OpenMeteoRefreshDone ==
    /\ variant = "open_meteo"
    /\ refreshPc \in CacheKeys
    /\ \E ok \in BOOLEAN, p \in NormalizedPayloads :
          /\ openMeteoCache' = IF ok
                               THEN [openMeteoCache EXCEPT ![refreshPc] = CacheEntry(p)]
                               ELSE openMeteoCache
          /\ request' = TimerRequest(IF ok THEN "refresh" ELSE "refreshFailed")
    /\ IF refreshRest = {}
       THEN /\ refreshPc' = "idle"
            /\ refreshRest' = {}
       ELSE \E k \in refreshRest :
               /\ refreshPc' = k
               /\ refreshRest' = refreshRest \ {k}
    /\ response' = NoResponse
    /\ UNCHANGED <<offServer, logRun, variant, now, windowState, currentCommand, cached,
                   env, nextRefreshAt, nextDecisionAt, pending, manualChoice,
                   ctlOutcome, lastDecisionAt>>

\* shouldWindowBeOpen(mapNormalizedToLegacy(normalized)), as the auto-update
\* timer and the recommendation route evaluate a cached reading
DecideNormalized ==
    /\ ~eval.decided
    /\ \E wd \in mapNormalizedToLegacy(eval.normalized) :
          eval' = [eval EXCEPT !.reading = wd, !.decided = TRUE,
                               !.shouldBeOpen = shouldWindowBeOpen(wd)]
    /\ UNCHANGED <<device, app, refreshRest, logRun, variant, now, windowState,
                   currentCommand, cached, env, refreshPc, nextRefreshAt,
                   nextDecisionAt, openMeteoCache, pending, request, response,
                   manualChoice, ctlOutcome, lastDecisionAt>>

\* ------------------------------------------------ open_meteo: decision timer
\* the async auto-update setInterval callback of part_001 556-571, up to the
\* await (run to its end when getWeatherData() answers from the cache)
DecisionTickOpenMeteo ==
    /\ variant = "open_meteo"
    /\ now >= nextDecisionAt
    /\ nextDecisionAt' = now + AutoUpdateInterval
    /\ request' = TimerRequest("decisionTick")
    /\ IF DecisionGate(windowState)
       THEN IF HasCachedDefault
            THEN /\ \E wd \in mapNormalizedToLegacy(openMeteoCache[DefaultKey]) :
                       windowState' = ApplyDecision(windowState, shouldWindowBeOpen(wd))
                 /\ pending' = pending
            ELSE /\ "tick" \notin pending
                 /\ pending' = pending \cup {"tick"}
                 /\ windowState' = windowState
       ELSE UNCHANGED <<windowState, pending>>
    /\ response' = NoResponse
    /\ UNCHANGED <<offServer, refreshRest, logRun, lastDecisionAt, variant, now, currentCommand, cached, env, refreshPc,
                   nextRefreshAt, openMeteoCache, manualChoice,
                   ctlOutcome>>

\* the callback resumes after the await and writes its decision
DecisionResumeOpenMeteo ==
    /\ variant = "open_meteo"
    /\ "tick" \in pending
    /\ pending' = pending \ {"tick"}
    /\ request' = TimerRequest("decisionResume")
    /\ \E o \in GetWeatherDataOutcomes :
          /\ openMeteoCache' = o.cache
          /\ windowState' = ApplyDecision(windowState, shouldWindowBeOpen(o.data))
    /\ response' = NoResponse
    /\ UNCHANGED <<offServer, refreshRest, logRun, lastDecisionAt, variant, now, currentCommand, cached, env, refreshPc,
                   nextRefreshAt, nextDecisionAt, manualChoice,
                   ctlOutcome>>

\* ------------------------------------------------------------------- clock
\* is a setInterval callback of the deployed variant due?
TimerDue ==
    \/ variant \in {"backend", "open_meteo"}
          /\ (now >= nextRefreshAt \/ now >= nextDecisionAt)

\* time passes between two callbacks of the event loop; a due timer runs first
AdvanceClock ==
    /\ now < (IF variant = "open_meteo" THEN MaxTimeOpenMeteo ELSE MaxTime)
    /\ ~TimerDue
    /\ now' = now + 1
    /\ request' = NoRequest
    /\ response' = NoResponse
    /\ UNCHANGED <<offServer, refreshRest, logRun, variant, windowState, currentCommand, cached, env, refreshPc,
                   nextRefreshAt, nextDecisionAt, openMeteoCache, pending,
                   manualChoice, ctlOutcome, lastDecisionAt>>

\* ------------------------------------------------------------ specification
\* the state once the module has been loaded: the globals are initialised, the
\* timers are armed and the start-up refreshExternalData() has run to its first
\* await
InitServer(vs, es) ==
    /\ variant \in vs
    /\ now = 0
    /\ windowState = IF IsCommandVariant THEN InitWindowStateCommand
                     ELSE InitWindowStateBackend
    /\ currentCommand = IF IsCommandVariant THEN "AUTO" ELSE "undefined"
    /\ env \in IF variant = "backend" THEN es
               ELSE {[NoKeys EXCEPT !.ttl = e.ttl] : e \in es}
    /\ refreshPc = IF variant = "backend" /\ RefreshEntry(env) # "done"
                   THEN RefreshEntry(env) ELSE "idle"
    /\ cached = IF variant = "backend" /\ RefreshEntry(env) = "done"
                THEN [InitCached EXCEPT !.lastFetched = 0] ELSE InitCached
    /\ nextRefreshAt = IF variant = "backend" THEN FetchInterval
                       ELSE IF variant = "open_meteo" THEN env.ttl
                       ELSE 0
    /\ nextDecisionAt = IF variant = "backend" THEN DecisionInterval
                        ELSE IF variant = "open_meteo" THEN AutoUpdateInterval
                        ELSE 0
    /\ openMeteoCache = InitOpenMeteoCache
    /\ pending = NoPending
    /\ request = NoRequest
    /\ response = NoResponse
    /\ manualChoice = "none"
    /\ ctlOutcome = "AUTO"
    /\ lastDecisionAt = -1
    /\ logRun = NoLogRun
    /\ refreshRest = {}

\* ... no call of the decision function on its own, the device just booted
InitOf(vs, es) ==
    /\ InitServer(vs, es)
    /\ eval = NoEval
    /\ device = InitDevice
    /\ app = InitApp

NextCommand ==
    \/ PostLog
    \/ PostControlCommand
    \/ GetStatusCommand
    \/ AdvanceClock

NextBackend ==
    \/ PostControlState
    \/ GetStatusState
    \/ RefreshStart
    \/ GetRecommendationBackend
    \/ GetWeatherBackend
    \/ DecisionTickBackend
    \/ AdvanceClock

NextOpenMeteo ==
    \/ PostControlState
    \/ GetStatusState
    \/ GetWeatherDataStart
    \/ GetWeatherDataResume
    \/ DecisionTickOpenMeteo
    \/ DecisionResumeOpenMeteo
    \/ AdvanceClock

\* the two currentCommand servers
InitCommand == InitOf({"command_v1", "command"}, {NoKeys})
SpecCommand == InitCommand /\ [][NextCommand]_vars

\* the command server with its device and the application, within one clock
\* reading of the server
NextDevice ==
    \/ checkSystem
    \/ PostControlCommand
    \/ GetStatusCommand

SpecDevice == InitCommand /\ [][NextDevice]_vars

\* the mobile application with the command server; the timeout of a scan fires
NextApp ==
    \/ SetTab
    \/ fetchStatus
    \/ sendCommand
    \/ toggleAutoMode
    \/ scanAndConfigure
    \/ ScanError
    \/ ScanFound
    \/ handleSuccess
    \/ ScanTimeout

SpecApp == InitCommand /\ [][NextApp]_vars
SpecAppFair == SpecApp /\ WF_vars(ScanTimeout)

\* the device keeps polling and its polls are answered again and again: loop()
\* calls checkSystem() every few seconds for as long as the device runs
SpecDeviceFair == SpecDevice /\ WF_vars(checkSystemOk)

\* the server of backend/src/server.js 112-463, no API key configured
InitBackend == InitOf({"backend"}, {NoKeys})
SpecBackend == InitBackend /\ [][NextBackend]_vars

\* the servers that read external data, under data traffic alone (no control
\* request): server.js with the MeteoSource key and one pollution key, the
\* Open-Meteo server with a TTL of one minute
KeyedEnvs ==
    { e \in Envs : e.meteosource /\ e.pollution # "none" /\ e.ttl = ShortTtl }
InitExternal == InitOf({"backend", "open_meteo"}, KeyedEnvs)
NextExternal ==
    \/ RefreshStart
    \/ RefreshWeatherDone
    \/ RefreshPollutionDone
    \/ GetRecommendationBackend
    \/ GetWeatherBackend
    \/ DecisionTickBackend
    \/ GetOpenMeteoStart
    \/ GetOpenMeteoResume
    \/ OpenMeteoRefreshStart
    \/ OpenMeteoRefreshDone
    \/ GetWeatherDataStart
    \/ GetWeatherDataResume
    \/ DecisionTickOpenMeteo
    \/ DecisionResumeOpenMeteo
    \/ AdvanceClock
SpecExternal == InitExternal /\ [][NextExternal]_vars

\* the background refresh of server.js with the MeteoSource and IQAir keys set,
\* next to the decision timer; the timers of the event loop fire when due and
\* time goes on, while a fetch may take arbitrarily long
InitRefresh == InitOf({"backend"}, {e \in KeyedEnvs : e.pollution = "iqair"})
NextRefresh ==
    \/ RefreshStart
    \/ RefreshStartOverlapping
    \/ RefreshWeatherDone
    \/ RefreshPollutionDone
    \/ DecisionTickBackend
    \/ AdvanceClock

SpecRefresh == InitRefresh /\ [][NextRefresh]_vars
SpecRefreshFair ==
    /\ SpecRefresh
    /\ WF_vars(RefreshStart)
    /\ WF_vars(RefreshStartOverlapping)
    /\ WF_vars(DecisionTickBackend)
    /\ WF_vars(AdvanceClock)

\* server.js with the IQAir key only: the decision timer next to the background
\* refresh and the application's control requests; timers fire when due and
\* time goes on
InitAuto ==
    InitOf({"backend"}, {e \in Envs : ~e.meteosource /\ e.pollution = "iqair"
                                        /\ e.ttl = DefaultTtl})
NextAuto ==
    \/ RefreshStart
    \/ RefreshStartOverlapping
    \/ RefreshPollutionDone
    \/ PostControlFromApp
    \/ DecisionTickBackend
    \/ AdvanceClock

SpecAuto == InitAuto /\ [][NextAuto]_vars
SpecAutoFair ==
    /\ SpecAuto
    /\ WF_vars(RefreshStart)
    /\ WF_vars(RefreshStartOverlapping)
    /\ WF_vars(DecisionTickBackend)
    /\ WF_vars(AdvanceClock)

\* shouldWindowBeOpen() called on a reading of integer values
InitDecide ==
    /\ InitServer({"backend"}, {NoKeys})
    /\ device = InitDevice
    /\ app = InitApp
    /\ eval \in {[NoEval EXCEPT !.reading = r] : r \in Readings}
SpecDecide == InitDecide /\ [][Decide]_vars

\* the decision on a normalized Open-Meteo reading, values possibly missing
InitDecideNormalized ==
    /\ InitServer({"open_meteo"}, {NoKeys})
    /\ device = InitDevice
    /\ app = InitApp
    /\ eval \in {[NoEval EXCEPT !.normalized = n] : n \in NormalizedInputs}
SpecDecideNormalized == InitDecideNormalized /\ [][DecideNormalized]_vars

\* the provisioning of a device over BLE, for every form the user may fill in
InitProvision ==
    /\ InitServer({"command"}, {NoKeys})
    /\ device = InitDevice
    /\ app = InitApp
    /\ eval \in {[NoEval EXCEPT !.config = c] : c \in Configs}
SpecProvision == InitProvision /\ [][WriteConfig]_vars

\* setWindow called twice in a row with one argument, from every device state
InitSetWindow ==
    /\ InitServer({"command"}, {NoKeys})
    /\ app = InitApp
    /\ device \in DeviceStates
    /\ eval \in {[NoEval EXCEPT !.setArg = b, !.snapshots = <<device>>] :
                    b \in BOOLEAN}
SpecSetWindow == InitSetWindow /\ [][CallSetWindow]_vars

\* the Open-Meteo server with a TTL of one minute, queried for the default
\* coordinates in two spellings
InitOpenMeteoKeys == InitOf({"open_meteo"}, KeyedEnvs)
NextOpenMeteoKeys ==
    \/ GetOpenMeteoStart
    \/ GetOpenMeteoResume
    \/ GetOpenMeteoQueryStart
    \/ GetOpenMeteoQueryResume
    \/ OpenMeteoRefreshStart
    \/ OpenMeteoRefreshDone
    \/ DecisionTickOpenMeteo
    \/ DecisionResumeOpenMeteo
    \/ AdvanceClock
SpecOpenMeteoKeys == InitOpenMeteoKeys /\ [][NextOpenMeteoKeys]_vars

\* the Open-Meteo server of unnamed/part_001 103-584
InitOpenMeteo == InitOf({"open_meteo"}, {NoKeys})
SpecOpenMeteo == InitOpenMeteo /\ [][NextOpenMeteo]_vars

\* any of the variants, no API key configured
Init == InitOf(Variants, {NoKeys})
Next ==
    \/ PostLog
    \/ PostControlCommand
    \/ GetStatusCommand
    \/ PostControlState
    \/ GetStatusState
    \/ RefreshStart
    \/ GetRecommendationBackend
    \/ GetWeatherBackend
    \/ DecisionTickBackend
    \/ GetWeatherDataStart
    \/ GetWeatherDataResume
    \/ DecisionTickOpenMeteo
    \/ DecisionResumeOpenMeteo
    \/ AdvanceClock
Spec == Init /\ [][Next]_vars

\* ==================================================================== claims
\* the control regime a state stands for
Mode ==
    IF IsCommandVariant
    THEN (IF currentCommand = "AUTO" THEN "AUTO"
          ELSE IF currentCommand = "OPEN" THEN "FORCE_OPEN"
          ELSE IF currentCommand = "CLOSE" THEN "FORCE_CLOSE"
          ELSE "INVALID")
    ELSE (IF windowState.autoMode = "true" THEN "AUTO"
          ELSE IF windowState.autoMode # "false" THEN "INVALID"
          ELSE IF windowState.isOpen = "true" THEN "FORCE_OPEN"
          ELSE IF windowState.isOpen = "false" THEN "FORCE_CLOSE"
          ELSE "INVALID")

ForceMode(action) == IF action = "open" THEN "FORCE_OPEN" ELSE "FORCE_CLOSE"

\* C1: after an accepted manual open/close request the commanded position is
\* the manual choice in every later state, up to the next manual request or
\* switch to auto mode, whatever decision timer callbacks run in between
\* (backend/src/server.js 336-353, 407-450).
C1_ManualChoiceHolds ==
    (variant = "backend" /\ manualChoice # "none")
        => windowState.isOpen = JsBool(manualChoice = "open")

\* C1 witness: the decision timer has run after a manual open, at a later time
\* than the request, and the window is still commanded open.
C1_Witness ==
    /\ variant = "backend"
    /\ manualChoice = "open"
    /\ request.route = "decisionTick"
    /\ windowState.lastUpdated < now
    /\ windowState.isOpen = "true"

\* C2 (as claimed): the result of an automatic evaluation that was awaiting
\* weather data never overwrites a manual open/close request handled during
\* the await (unnamed/part_001 556-571, 517-534, 486-509).
C2_NoStaleOverwrite ==
    (variant = "open_meteo" /\ request.route = "decisionResume"
        /\ manualChoice # "none")
        => windowState.isOpen = JsBool(manualChoice = "open")

\* C3: a decision timer callback that runs while auto mode is off leaves the
\* commanded position, the mode and lastUpdated (the whole windowState) as
\* they were, in both windowState servers.
C3_TickOffIsNoOp ==
    [][(IsStateVariant /\ request'.route = "decisionTick"
            /\ ~Truthy(windowState.autoMode))
        => (windowState' = windowState /\ pending' = pending)]_vars

\* C3 witness: in the Open-Meteo server the timer callback has just run in
\* manual mode.
C3_Witness ==
    /\ variant = "open_meteo"
    /\ request.route = "decisionTick"
    /\ windowState.autoMode = "false"
    /\ manualChoice = "open"

\* C4 (as claimed): the mode is always one of AUTO / FORCE_OPEN / FORCE_CLOSE:
\* currentCommand is 'AUTO', 'OPEN' or 'CLOSE' and autoMode is a boolean.
C4_ModeIsEnumerated ==
    /\ IsCommandVariant => currentCommand \in {"AUTO", "OPEN", "CLOSE"}
    /\ IsStateVariant => windowState.autoMode \in {"true", "false"}

\* C5 (as claimed): a control request whose action is 'open' or 'close' results
\* in the corresponding FORCE mode, whatever autoMode the request carries.
C5_ActionForcesMode ==
    (request.route = "control" /\ request.action \in {"open", "close"})
        => Mode = ForceMode(request.action)

\* C6 (as claimed): a control request with autoMode:false and no action results
\* in FORCE_OPEN when the last reported position is open, in FORCE_CLOSE when
\* it is closed, and never leaves the mode at AUTO.
C6_FreezeInPlace ==
    (IsCommandVariant /\ request.route = "control"
        /\ request.action = "undefined" /\ request.autoMode = "false")
        => /\ Mode # "AUTO"
           /\ windowState.isOpen = "true" => Mode = "FORCE_OPEN"
           /\ windowState.isOpen = "false" => Mode = "FORCE_CLOSE"

\* C7 (as claimed): a control request with autoMode:false and no action, handled
\* while the mode is FORCE_OPEN or FORCE_CLOSE, leaves the command as it was,
\* also when the last reported position disagrees with the command.
C7_FreezeKeepsCommand ==
    [][(IsCommandVariant /\ request'.route = "control"
            /\ request'.action = "undefined" /\ request'.autoMode = "false"
            /\ currentCommand \in {"OPEN", "CLOSE"})
        => currentCommand' = currentCommand]_vars

\* C8: the commanded position changes outside a control request only in a
\* decision timer callback that runs in auto mode, and two such evaluations are
\* at least one decision interval apart, however often the external data is
\* refreshed; the weather, pollution, status and recommendation endpoints and
\* the refresh leave windowState unchanged (backend/src/server.js 356-450).
C8_DecisionCadence ==
    [][/\ (variant = "backend" /\ request'.route # "control"
              /\ windowState'.isOpen # windowState.isOpen)
          => /\ request'.route = "decisionTick"
             /\ Truthy(windowState.autoMode)
       /\ (variant = "backend" /\ lastDecisionAt' # lastDecisionAt)
          => /\ request'.route = "decisionTick"
             /\ Truthy(windowState.autoMode)
             /\ lastDecisionAt' = now
             /\ (lastDecisionAt = -1 \/ now - lastDecisionAt >= DecisionInterval)
       /\ (variant = "backend"
              /\ request'.route \in {"weather", "pollution", "status",
                                     "recommendation", "refresh"})
          => windowState' = windowState]_vars

\* C8 witness: the second run of the decision timer, one decision interval after
\* the first evaluation at the earliest, has changed the position.
C8_Witness ==
    /\ variant = "backend"
    /\ request.route = "decisionTick"
    /\ lastDecisionAt = now
    /\ now >= 2 * DecisionInterval
    /\ windowState.lastUpdated = now
    /\ cached.lastFetched = now

\* C9: a telemetry report stores the reported position and the contact time and
\* changes neither the mode nor the command handed to the device.
C9_LogKeepsCommand ==
    [][(IsCommandVariant /\ request'.route = "log")
        => /\ currentCommand' = currentCommand
           /\ response'.command = currentCommand
           /\ windowState'.isOpen = request'.isOpen
           /\ windowState'.lastUpdated = now]_vars

\* C9 witness: the device has reported a closed window while the command is
\* OPEN, and the command is still OPEN.
C9_Witness ==
    /\ variant = "command"
    /\ request.route = "log"
    /\ request.isOpen = "false"
    /\ windowState.isOpen = "false"
    /\ currentCommand = "OPEN"

\* C10: the command in the answer to a telemetry report is the outcome of the
\* most recent control request (AUTO if there was none).
C10_LogReturnsLatestCommand ==
    (IsCommandVariant /\ request.route = "log") => response.command = ctlOutcome

\* C10 witness: a report that says open is answered with the CLOSE a control
\* request set after an earlier OPEN.
C10_Witness ==
    /\ variant = "command"
    /\ request.route = "log"
    /\ request.isOpen = "true"
    /\ ctlOutcome = "CLOSE"
    /\ response.command = "CLOSE"

\* C11: telemetry is idempotent: a telemetry report that repeats the payload of
\* the report before it, with no control request in between, is answered with
\* the same command, and leaves currentCommand and windowState, lastUpdated
\* apart, as the first report left them (unnamed/part_001 606-622).
C11_TelemetryIdempotent ==
    [][(IsCommandVariant /\ request'.route = "log"
            /\ SamePayload(logRun, request'.temp, request'.aqi, request'.isOpen))
        => /\ response'.command = logRun.command
           /\ response'.success = "true"
           /\ currentCommand' = currentCommand
           /\ windowState' = [windowState EXCEPT
                                 !.lastUpdated = windowState'.lastUpdated]]_vars

\* C11 witness: the device has reported a closed window twice in a row, the
\* second time later than the last change of the command, and was answered
\* OPEN both times.
C11_Witness ==
    /\ variant = "command"
    /\ logRun.count = 2
    /\ request.route = "log"
    /\ request.isOpen = "false"
    /\ logRun.command = "OPEN"
    /\ response.command = "OPEN"
    /\ windowState.lastUpdated = now
    /\ now > 0

\* C12 (as claimed): a control request that carries neither action nor autoMode
\* is rejected: its response is an error outcome, not success:true
\* (unnamed/part_001 625-652, backend/src/server.js 336-353).
C12_EmptyControlRejected ==
    (request.route = "control" /\ request.action = "undefined"
        /\ request.autoMode = "undefined")
        => (response.success # "true" /\ response.status >= 400)

\* C13: a control request that carries no autoMode and no action, or an action
\* other than 'open' / 'close', leaves the server's state as it was: the mode,
\* the commanded and the reported position, the timestamps, the cached data and
\* the timers (unnamed/part_001 625-652, backend/src/server.js 336-353).
C13_EmptyControlIsNoOp ==
    [][(request'.route = "control" /\ request'.action \notin {"open", "close"}
            /\ request'.autoMode = "undefined")
        => /\ windowState' = windowState
           /\ currentCommand' = currentCommand
           /\ Mode' = Mode
           /\ <<cached, openMeteoCache, pending, refreshPc>>'
                 = <<cached, openMeteoCache, pending, refreshPc>>
           /\ <<now, nextRefreshAt, nextDecisionAt, lastDecisionAt>>'
                 = <<now, nextRefreshAt, nextDecisionAt, lastDecisionAt>>]_vars

\* C13 witness: an empty control request has been handled in manual mode, later
\* than the manual request that opened the window, and the window is still
\* commanded open with its old timestamp.
C13_Witness ==
    /\ variant = "backend"
    /\ request.route = "control"
    /\ request.action = "undefined"
    /\ request.autoMode = "undefined"
    /\ Mode = "FORCE_OPEN"
    /\ manualChoice = "open"
    /\ windowState.lastUpdated < now

\* C14 (as claimed): the isOpen field of the control response and of the status
\* query is the commanded position: while the command is OPEN (CLOSE), isOpen
\* is true (false) in the response to the control request that set it and in
\* every status read, whatever the device reports
\* (unnamed/part_001 625-660, 606-614).
C14_IsOpenIsCommanded ==
    (variant = "command" /\ response.route \in {"control", "status"}
        /\ currentCommand \in {"OPEN", "CLOSE"})
        => response.isOpen = JsBool(currentCommand = "OPEN")

\* the fields of a response that project the window's state
Projection(r) == <<r.isOpen, r.autoMode, r.lastUpdated>>

\* C15: in the currentCommand servers the autoMode field of a control or status
\* response is the boolean currentCommand === 'AUTO', and a status query handled
\* right after a control request returns the projection that the control
\* response carried (unnamed/part_001 648-660, backend/src/server.js 93-106).
C15_AutoModeProjection ==
    [][/\ (IsCommandVariant /\ response'.route \in {"control", "status"})
          => response'.autoMode = JsBool(Mode' = "AUTO")
       /\ (IsCommandVariant /\ request.route = "control"
              /\ request'.route = "status")
          => Projection(response') = Projection(response)]_vars

\* C15 witness: a status query answers autoMode false after a control request
\* has set the command to OPEN, no telemetry report in between.
C15_Witness ==
    /\ IsCommandVariant
    /\ request.route = "status"
    /\ ctlOutcome = "OPEN"
    /\ logRun.count = 0
    /\ response.autoMode = "false"
    /\ Mode = "FORCE_OPEN"

\* C16: a control request with autoMode:true and no open/close action sets the
\* mode to AUTO and changes neither the commanded position nor lastUpdated
\* (backend/src/server.js 336-353, unnamed/part_001 517-534).
C16_AutoKeepsPosition ==
    [][(IsStateVariant /\ request'.route = "control"
            /\ request'.autoMode = "true"
            /\ request'.action \notin {"open", "close"})
        => /\ Mode' = "AUTO"
           /\ windowState'.autoMode = "true"
           /\ windowState'.isOpen = windowState.isOpen
           /\ windowState'.lastUpdated = windowState.lastUpdated]_vars

\* C16 witness: auto mode has just been switched on while the window had been
\* opened earlier: it is still open, with its old timestamp.
C16_Witness ==
    /\ IsStateVariant
    /\ request.route = "control"
    /\ request.action = "undefined"
    /\ request.autoMode = "true"
    /\ windowState.autoMode = "true"
    /\ windowState.isOpen = "true"
    /\ windowState.lastUpdated < now
    /\ manualChoice = "none"

\* C17 (as claimed): reading the cache never performs network I/O: no client
\* request (weather, pollution, Open-Meteo data, recommendation) and no
\* decision timer callback is ever awaiting a provider fetch it started; only
\* the background refresh fetches
\* (unnamed/part_001 254-281, 486-509, backend/src/server.js 243-254).
C17_ReadsNeverFetch == pending = NoPending

\* C18: when a fetch of the background refresh fails (safeFetchJson returns
\* null, fetchAndNormalizeOpenMeteo throws), the cache entries keep their data
\* and their fetchedAt, no response is sent and no state of the window changes;
\* and the data routes of server.js keep answering 200 from an entry that is
\* present (backend/src/server.js 169-212, unnamed/part_001 419-435).
C18_FailedRefreshKeepsEntry ==
    [][/\ request'.route = "refreshFailed"
          => /\ cached'.weather = cached.weather
             /\ cached'.pollution = cached.pollution
             /\ openMeteoCache' = openMeteoCache
             /\ response' = NoResponse
             /\ windowState' = windowState
             /\ pending' = pending
       /\ (variant = "backend" /\ response'.route \in {"weather", "pollution"}
              /\ cached[response'.route].source # "null")
          => response'.status = 200]_vars

\* C18 witness: the MeteoSource fetch of a refresh has just failed, and the
\* weather entry stored by an earlier refresh is still there.
C18_Witness ==
    /\ variant = "backend"
    /\ request.route = "refreshFailed"
    /\ refreshPc = "pollution"
    /\ cached.weather.source = "meteosource"
    /\ cached.weather.fetchedAt < now
    /\ cached.weather.cycle < RefreshCycle

\* C19 (as claimed): a fetch failure is never surfaced to a client: when the
\* entry for the requested coordinates exists but is older than the TTL and the
\* provider fetch fails, GET /api/external/open-meteo answers with the retained
\* entry, not with an error status (unnamed/part_001 254-281).
C19_StaleBeatsError ==
    (variant = "open_meteo" /\ response.route = "open-meteo"
        /\ openMeteoCache[DefaultKey].present
        /\ ~IsFresh(openMeteoCache[DefaultKey]))
        => response.status = 200

\* C20 (as claimed): a refresh replaces the reading atomically: the reading a
\* reader (recommendation endpoint, decision timer) builds from `cached` never
\* mixes the weather of one refresh cycle with the pollution of another
\* (backend/src/server.js 184-212, 356-450).
C20_NoMixedReading ==
    (variant = "backend" /\ request.route \in {"recommendation", "decisionTick"}
        /\ cached.weather.source # "null" /\ cached.pollution.source # "null"
        /\ ~IsNull(SynthWeatherData(cached)))
        => cached.weather.cycle = cached.pollution.cycle

\* C21 (as claimed): the cache holds at most one entry per coordinate pair: two
\* entries never stand for numerically equal latitude and longitude
\* (unnamed/part_001 254-281, 419-435).
C21_OneEntryPerCoordinates ==
    \A k1, k2 \in CacheKeys :
        (openMeteoCache[k1].present /\ openMeteoCache[k2].present
            /\ Coordinates(k1) = Coordinates(k2)) => k1 = k2

\* C22: for every reading of integer pollution, wind and sunlight values the
\* decision function returns false if pollution > 70 or wind > 40, otherwise
\* true exactly when sunlight > 50 and pollution < 50 and wind < 30
\* (backend/src/server.js 223-238, README.md 102-111).
C22_DecisionIsReferenceRule ==
    eval.decided =>
        LET p == eval.reading.pollution[1]
            w == eval.reading.windSpeed[1]
            s == eval.reading.sunlight[1]
        IN eval.shouldBeOpen =
              (IF p > 70 \/ w > 40 THEN FALSE
               ELSE (s > 50 /\ p < 50 /\ w < 30))

\* C22 witness: the reading {aqi 30, wind 10, sunlight 70} has been decided:
\* open.
C22_Witness ==
    /\ eval.decided
    /\ eval.reading = WeatherData(Some(30), Some(70), Some(10))
    /\ eval.shouldBeOpen

\* C23 (as claimed): when the pollution, the wind or the daylight value of the
\* normalized reading is missing (null), the automatic decision is 'closed'
\* (unnamed/part_001 156-171, 438-483).
C23_MissingValueCloses ==
    (eval.decided
        /\ (IsNull(eval.normalized.european_aqi)
            \/ IsNull(eval.normalized.wind_speed)
            \/ eval.normalized.is_day = "null"))
        => ~eval.shouldBeOpen

\* C24 (as claimed): when no usable cached reading exists, the automatic
\* decision and the recommendation are computed from one fixed default reading:
\* the outcome of the timer callback and the recommendation returned are the
\* same whatever reading the fallback yields
\* (backend/src/server.js 129-153, 407-450, unnamed/part_001 486-509).
C24_DefaultIsDeterministic ==
    [][/\ (variant = "backend" /\ request'.route = "decisionTick"
              /\ DecisionGate(windowState)
              /\ DecisionData(cached) = MockWeatherData)
          => \A wd \in DecisionData(cached) :
                windowState' = ApplyDecision(windowState, shouldWindowBeOpen(wd))
       /\ (variant = "backend" /\ request'.route = "recommendation"
              /\ RecommendationData(cached) = MockWeatherData)
          => \A wd \in RecommendationData(cached) :
                response'.recommendation =
                    (IF shouldWindowBeOpen(wd) THEN "open" ELSE "close")]_vars

\* C26 (as claimed): every accepted manual open/close request updates the
\* last-changed timestamp of the projection: the lastUpdated of the state it
\* answers with is the time of the request
\* (unnamed/part_001 625-652, backend/src/server.js 336-353).
C26_ManualStampsLastUpdated ==
    [][(request'.route = "control" /\ request'.action \in {"open", "close"}
            /\ response'.status = 200)
       => (windowState'.lastUpdated = now /\ response'.lastUpdated = now)]_vars

\* C27: the Open-Meteo endpoint answers cached:true only when the entry of the
\* requested coordinates is younger than the TTL (now - fetchedAt < TTL); an
\* entry whose age is at or above the TTL is never returned as fresh
\* (unnamed/part_001 258-269).
C27_CachedOnlyWhenFresh ==
    \A k \in CacheKeys :
        (response.route = (IF k = DefaultKey THEN "open-meteo"
                           ELSE "open-meteo-query")
            /\ response.cached = "true")
        => (openMeteoCache[k].present
               /\ now - openMeteoCache[k].fetchedAt < env.ttl)

\* an entry of age 1 (TTL 2) has been served from the cache
C27_Witness ==
    /\ response.route = "open-meteo"
    /\ response.cached = "true"
    /\ response.status = 200
    /\ openMeteoCache[DefaultKey].present
    /\ now - openMeteoCache[DefaultKey].fetchedAt = 1

\* C29: the device applies the order it reads: after a poll answered with OPEN
\* its isOpen is true and after CLOSE it is false, whatever the stored weather;
\* after AUTO or any other value isOpen is true exactly when not
\* (lastTemp > 30 or lastAQI > 50) (README.md 325-333, 386-411).
C29_DeviceAppliesCommand ==
    /\ device.command = "OPEN" => device.isOpen
    /\ device.command = "CLOSE" => ~device.isOpen
    /\ device.command \notin {"none", "OPEN", "CLOSE"}
          => (device.isOpen <=> ~(device.lastTemp > 30 \/ device.lastAQI > 50))

\* the device was ordered to open in weather that closes the window in AUTO
C29_Witness ==
    /\ device.command = "OPEN"
    /\ device.isOpen
    /\ device.lastTemp > 30
    /\ device.lastAQI > 50
    /\ response.route = "log"
    /\ response.command = "OPEN"

\* C30: if the server stays in forced-open (forced-close) mode and the device
\* keeps polling with polls that are answered, then eventually the device's
\* position and the position reported by the status query are open (closed),
\* and they stay so (README.md 355-412, unnamed/part_001 606-660).
C30_ForcedPositionReached ==
    /\ <>[](currentCommand = "OPEN")
          => <>[](device.isOpen /\ windowState.isOpen = "true")
    /\ <>[](currentCommand = "CLOSE")
          => <>[](~device.isOpen /\ windowState.isOpen = "false")

\* the forced opening has arrived at the device and in the status
C30_Witness ==
    /\ currentCommand = "OPEN"
    /\ device.command = "OPEN"
    /\ device.isOpen
    /\ windowState.isOpen = "true"
    /\ response.route = "status"
    /\ response.isOpen = "true"

\* C25: a failed or slow background refresh never blocks or delays the next
\* scheduled attempt: whenever a refresh has failed or is still in flight and
\* the next attempt is scheduled for a time t of the horizon, that attempt
\* starts at t; so attempts recur at every interval
\* (backend/src/server.js 214-220).
C25_RefreshRecurs ==
    \A t \in 1..MaxTime :
        ((request.route = "refreshFailed" \/ refreshPc # "idle")
            /\ nextRefreshAt = t)
        ~> (now = t /\ nextRefreshAt = t + FetchInterval
               /\ refreshPc = RefreshEntry(env))

\* a refresh attempt started on time although the one before it failed
C25_Witness ==
    /\ variant = "backend"
    /\ request.route = "refresh"
    /\ refreshPc = RefreshEntry(env)
    /\ now = 2
    /\ nextRefreshAt = 2 + FetchInterval
    /\ cached.weather.fetchedAt = -1
    /\ cached.pollution.fetchedAt = -1

\* C28: after auto mode is switched on and while it stays on, the commanded
\* position equals the decision for the cached reading within one decision
\* interval: when the timer is due at a time t of the horizon with auto mode
\* on, then (unless auto mode is switched off first) the evaluation runs at t
\* and leaves isOpen equal to the decision for the reading cached then
\* (backend/src/server.js 407-450).
C28_AutoReachesDecision ==
    \A t \in 1..MaxTime :
        (nextDecisionAt = t /\ Truthy(windowState.autoMode))
        ~> \/ ~Truthy(windowState.autoMode)
           \/ /\ now = t
              /\ lastDecisionAt = t
              /\ \/ DecisionData(cached) = MockWeatherData
                 \/ \A wd \in DecisionData(cached) :
                       windowState.isOpen = JsBool(shouldWindowBeOpen(wd))

\* auto mode was switched back on after the window had been opened by hand,
\* and the next evaluation closed the window for the cached reading
C28_Witness ==
    /\ request.route = "decisionTick"
    /\ lastDecisionAt = now
    /\ now > DecisionInterval
    /\ Truthy(windowState.autoMode)
    /\ DecisionData(cached) # MockWeatherData
    /\ windowState.isOpen = "false"
    /\ windowState.lastUpdated = now

\* C31: a missed response is tolerated by the device: a run of checkSystem()
\* in which the POST gets no HTTP response, or WiFi is down, leaves the window
\* position isOpen unchanged, and the device polls again: a later run reads an
\* order (README.md 355-412, 438-446).
C31_MissedResponseTolerated ==
    /\ [][device'.command = "none" => device'.isOpen = device.isOpen]_vars
    /\ (device.command = "none") ~> (device.command # "none")

\* a poll got no answer while the server orders to close: the window stays open
C31_Witness ==
    /\ device.command = "none"
    /\ device.isOpen
    /\ currentCommand = "CLOSE"
    /\ windowState.isOpen = "true"

\* C32 (as claimed): in AUTO mode the device does not open the window before
\* it has read at least one weather answer: while every weather fetch so far
\* has failed, a poll answered with AUTO leaves the window closed
\* (README.md 318-323, 355-412).
C32_NoOpeningWithoutWeather ==
    (device.command \notin {"none", "OPEN", "CLOSE"} /\ ~device.weatherRead)
        => ~device.isOpen

\* C33 (as claimed): the BLE provisioning string round-trips: for every SSID,
\* password, latitude and longitude entered in the app, the firmware's parse
\* of 'SSID;PASS;LAT;LON' yields the same four values, including when the SSID
\* or the password contains ';' (mobile/App.tsx 71-77, README.md 336-353).
C33_ProvisioningRoundTrip ==
    eval.written =>
        /\ eval.stored.ssid = eval.config.ssid
        /\ eval.stored.password = eval.config.password
        /\ eval.stored.latitude = toFloat(eval.config.lat)
        /\ eval.stored.longitude = toFloat(eval.config.lon)

\* C34 (as claimed): the BLE scan has a safety timeout: when scanAndConfigure
\* has started a scan and neither the device is discovered nor a scan error
\* occurs, the timeout stops the scan and sets scanning back to false, so the
\* send button becomes usable again (mobile/App.tsx 55-91).
C34_ScanTimesOut ==
    (app.scanning /\ app.scan) ~> (~app.scanning \/ ~app.scan)

\* C35 (as claimed): the manual open/close controls are available only when
\* auto mode is shown as off: in every state of the UI, also before the first
\* status fetch has completed, the buttons are shown only if the auto-mode
\* switch displays off (mobile/App.tsx 173-200).
C35_ButtonsOnlyWhenSwitchOff == ButtonsShown(app) => ~SwitchValue(app)

\* C36: the actuator setter is idempotent: setWindow(open) called when isOpen
\* already equals open writes nothing to the servo and changes no state, and
\* setWindow(x) followed by setWindow(x) leaves the state of a single call
\* (README.md 325-333).
C36_SetWindowIdempotent ==
    LET s == eval.snapshots
        Same(d, e) == [d EXCEPT !.moved = FALSE] = [e EXCEPT !.moved = FALSE]
    IN /\ (Len(s) >= 2 /\ s[1].isOpen = eval.setArg)
             => (~s[2].moved /\ Same(s[2], s[1]))
       /\ Len(s) = 3 => (~s[3].moved /\ Same(s[3], s[2]))

\* a first call moved the servo to open and the second call wrote nothing
C36_Witness ==
    /\ Len(eval.snapshots) = 3
    /\ eval.setArg
    /\ ~eval.snapshots[1].isOpen
    /\ eval.snapshots[2].moved
    /\ eval.snapshots[2].servo = 90
    /\ device.isOpen
    /\ ~device.moved

\* the mapping of the OpenWeather index: for every index 1..5 the value is the
\* rounding (half up) of (a-1)/4*250+50 cut at 300, lies in 50..300 and grows
\* with the index
OpenWeatherMappingInRange ==
    \A a \in 1..5 :
        LET v == OpenWeatherToAqi(a)
            x4 == (a - 1) * 250 + 200
        IN /\ v \in 50..300
           /\ (v < 300 => (4 * v - 2 <= x4 /\ x4 < 4 * v + 2))
           /\ (v = 300 => x4 >= 4 * 300 - 2)
           /\ (a < 5 => v < OpenWeatherToAqi(a + 1))

C38_IsOpenIsBoolean == windowState.isOpen \in {"true", "false"}

\* C39: in auto mode a decision tick writes the window state only when the
\* decision differs from the current position: when isOpen stays the same,
\* lastUpdated stays the same too, and when isOpen changes, lastUpdated is set
\* to the time of the tick; nothing else of windowState is written
\* (backend/src/server.js 443-449, unnamed/part_001 559-566).
C39_TickWritesOnlyOnChange ==
    [][request'.route \in {"decisionTick", "decisionResume"}
       => /\ windowState'.isOpen = windowState.isOpen
                => windowState' = windowState
          /\ windowState'.isOpen # windowState.isOpen
                => windowState' = [windowState EXCEPT
                                      !.isOpen = windowState'.isOpen,
                                      !.lastUpdated = now]]_vars

\* a tick after the start opened the window and stamped the change
C39_Witness ==
    /\ request.route = "decisionTick"
    /\ lastDecisionAt = now
    /\ now > 0
    /\ windowState.isOpen = "true"
    /\ windowState.lastUpdated = now

====
